---- MODULE Spec2Model ----
(***************************************************************************)
(* State-machine model of code_puppy/command_line/add_model_menu.py:       *)
(* AddModelMenu.run (display phase), AddModelMenu._prompt_custom_flow      *)
(* (five blocking prompts), AddModelMenu._save_config (merge one key into  *)
(* the JSON file) and interactive_model_picker.                            *)
(*                                                                         *)
(* Text answers are TLA+ strings, except the answer to the context-length  *)
(* prompt, which is a sequence of one-character strings so that int() can  *)
(* be computed character by character.  An optional value (an environment  *)
(* variable, a configuration-store key) is <<>> when absent and <<v>> when *)
(* present with value v.                                                   *)
(***************************************************************************)
EXTENDS Integers, Sequences, FiniteSets, TLC

VARIABLES
    pc,             \* where the (single, synchronous) thread of the caller is
    result,         \* self.result
    awaiting,       \* the flag set by set_awaiting_user_input
    screen,         \* terminal buffer in use: "main" or "alt"
    environ,        \* os.environ
    config_store,   \* the general key-value store written by set_config_value
    file,           \* content of EXTRA_MODELS_FILE
    base_url,       \* locals of _prompt_custom_flow
    model_id,
    env_var_name,
    context_length,
    ret,            \* value returned by the current run(): "none", "True", "False"
    obs             \* observation of the current invocation (history only)

vars == <<pc, result, awaiting, screen, environ, config_store, file,
          base_url, model_id, env_var_name, context_length, ret, obs>>

-----------------------------------------------------------------------------
(* Bounds of the model *)

\* longest enumerated answer to the context-length prompt, in characters
MaxCtxLen == 2

-----------------------------------------------------------------------------
(* Inputs *)

\* characters an enumerated context-length answer is made of
CtxAlphabet == {"5", "-", " ", "a"}

Digits == {"0", "1", "2", "3", "4", "5", "6", "7", "8", "9"}

\* answers to the context-length prompt: every string over CtxAlphabet up to
\* MaxCtxLen characters, and the examples "50000", "abc", "1_0", "+7", "5.0"
CtxAnswers ==
    UNION {[1..n -> CtxAlphabet] : n \in 0..MaxCtxLen}
      \cup { <<"5", "0", "0", "0", "0">>, <<"a", "b", "c">>, <<"1", "_", "0">>,
             <<"+", "7">>, <<"5", ".", "0">> }

BaseUrlAnswers == {"", "https://h/v1"}

ModelIdAnswers == {"", "m1"}

\* names of environment variables of the process
EnvVarNames == {"FOO_KEY", "BAR_KEY"}

EnvVarNameAnswers == {"", "FOO_KEY"}

\* values an environment variable can have when the program starts: absent,
\* present and empty, present with a value
InitialEnvValues == {<<>>, <<"">>, <<"v0">>}

KeyValueAnswers == {"", "sk-1"}

\* what safe_input can raise at a prompt
InputExceptions == {"KeyboardInterrupt", "EOFError"}

\* how the directory creation and the write of _save_config can end
IoOutcomes == {"ok", "open_fails", "write_fails"}

-----------------------------------------------------------------------------
(* JSON file and dict *)

\* a value of the mapping: the shape _prompt_custom_flow builds
MkConfig(url, name, api_key, ctx) ==
    [type |-> "custom_openai",
     name |-> name,
     custom_endpoint |-> [url |-> url, api_key |-> api_key],
     context_length |-> ctx,
     supported_settings |-> <<"temperature", "top_p">>]

\* file content: kind "absent" (no file), "corrupt" (unreadable or not JSON),
\* "nonobject" (valid JSON that is not an object), "object" (a JSON object,
\* given by its members in textual order, a name possibly repeated)
FileOf(kind, pairs) == [kind |-> kind, pairs |-> pairs]

Keys(d) == {d[i][1] : i \in 1..Len(d)}

KeySeq(d) == [i \in 1..Len(d) |-> d[i][1]]

IndexOf(d, k) == CHOOSE i \in 1..Len(d) : d[i][1] = k

Lookup(d, k) == d[IndexOf(d, k)][2]

\* d[k] = v on a Python dict, kept as the sequence of its items in insertion
\* order: an existing key keeps its position, a new key is appended
dict_setitem_moves_to_end(d, k, v) ==
    Append(SelectSeq(d, LAMBDA p : p[1] # k), <<k, v>>)

dict_setitem(d, k, v) ==
    IF k \in Keys(d)
    THEN [i \in 1..Len(d) |-> IF d[i][1] = k THEN <<k, v>> ELSE d[i]]
    ELSE Append(d, <<k, v>>)

RECURSIVE dict_of_pairs(_)
\* the dict json.load builds from the members of an object, in order
dict_of_pairs(pairs) ==
    IF pairs = <<>> THEN <<>>
    ELSE LET n == Len(pairs)
         IN dict_setitem(dict_of_pairs(SubSeq(pairs, 1, n - 1)),
                         pairs[n][1], pairs[n][2])

\* json.load(f): the Python value, or the exception it raises
json_load(f) ==
    CASE f.kind = "object" -> [t |-> "dict", items |-> dict_of_pairs(f.pairs)]
      [] f.kind = "nonobject" -> [t |-> "other", items |-> <<>>]
      [] OTHER -> [t |-> "exception", items |-> <<>>]

\* json.dump(d, f, indent=4) of a dict: its items in insertion order
json_dump(d) == FileOf("object", d)

\* an entry written by an earlier session, under another key or the same one
OldEntry(name) == MkConfig("https://old/v1", name, "$OLD_KEY", 4096)

\* contents the configuration file can have when the program starts
InitialFiles ==
    { FileOf("absent", <<>>),
      FileOf("corrupt", <<>>),
      FileOf("nonobject", <<>>),
      FileOf("object", <<>>),
      FileOf("object", << <<"a", OldEntry("a")>> >>),
      FileOf("object", << <<"a", OldEntry("a")>>, <<"custom-m1", OldEntry("m1")>> >>),
      FileOf("object", << <<"custom-m1", OldEntry("m1")>>, <<"a", OldEntry("a")>> >>),
      FileOf("object", << <<"custom-m1", OldEntry("x")>>, <<"a", OldEntry("a")>>,
                          <<"custom-m1", OldEntry("m1")>> >>) }

\* lines 190-198: the mapping _save_config starts from; a missing file and a
\* file whose load raises both give the empty dict
load_extra_models(f) ==
    IF f.kind = "absent"
    THEN [t |-> "dict", items |-> <<>>]
    ELSE LET v == json_load(f)
         IN IF v.t = "exception" THEN [t |-> "dict", items |-> <<>>] ELSE v

\* _save_config without the recovery from a failed load
save_config_load_error_propagates(f, key, config, io) ==
    LET v == IF f.kind = "absent" THEN [t |-> "dict", items |-> <<>>] ELSE json_load(f)
    IN IF v.t # "dict"
       THEN [file |-> f, outcome |-> "LoadError"]
       ELSE IF io = "ok"
            THEN [file |-> json_dump(dict_setitem(v.items, key, config)), outcome |-> "ok"]
            ELSE [file |-> f, outcome |-> "OSError"]

\* _save_config(key, config) on file content f, the directory creation and the
\* write ending as io says: the file it leaves and how it ends ("ok", or the
\* exception it propagates).  A loaded value that is not a dict makes the item
\* assignment raise before the file is opened for writing; a write that fails
\* after the file was opened leaves it truncated.
save_config(f, key, config, io) ==
    LET extra_models == load_extra_models(f)
    IN IF extra_models.t # "dict"
       THEN [file |-> f, outcome |-> "TypeError"]
       ELSE CASE io = "open_fails" -> [file |-> f, outcome |-> "OSError"]
              [] io = "write_fails" -> [file |-> FileOf("corrupt", <<>>), outcome |-> "OSError"]
              [] OTHER -> [file |-> json_dump(dict_setitem(extra_models.items, key, config)),
                           outcome |-> "ok"]

-----------------------------------------------------------------------------
(* int() and the context length *)

DefaultContextLength == 128000

RECURSIVE lstrip(_)
lstrip(s) == IF s # <<>> /\ Head(s) = " " THEN lstrip(Tail(s)) ELSE s

RECURSIVE rstrip(_)
rstrip(s) ==
    IF s # <<>> /\ s[Len(s)] = " " THEN rstrip(SubSeq(s, 1, Len(s) - 1)) ELSE s

DigitValue(c) ==
    CASE c = "0" -> 0 [] c = "1" -> 1 [] c = "2" -> 2 [] c = "3" -> 3 [] c = "4" -> 4
      [] c = "5" -> 5 [] c = "6" -> 6 [] c = "7" -> 7 [] c = "8" -> 8 [] c = "9" -> 9

RECURSIVE DecimalValue(_)
\* value of a string of digits and underscores, the underscores skipped
DecimalValue(s) ==
    IF s = <<>> THEN 0
    ELSE LET n == Len(s)
             front == DecimalValue(SubSeq(s, 1, n - 1))
         IN IF s[n] = "_" THEN front ELSE 10 * front + DigitValue(s[n])

\* digits, single underscores only between digits
DigitGroupOk(s) ==
    /\ s # <<>>
    /\ \A i \in 1..Len(s) : s[i] \in Digits \cup {"_"}
    /\ s[1] \in Digits
    /\ s[Len(s)] \in Digits
    /\ \A i \in 1..(Len(s) - 1) : ~(s[i] = "_" /\ s[i + 1] = "_")

\* int(s) of a str: surrounding whitespace stripped, an optional sign, then
\* the digits; ok = FALSE stands for ValueError
int(s) ==
    LET t == rstrip(lstrip(s))
        signed == t # <<>> /\ t[1] \in {"+", "-"}
        body == IF signed THEN Tail(t) ELSE t
    IN IF DigitGroupOk(body)
       THEN [ok |-> TRUE,
             value |-> IF signed /\ t[1] = "-" THEN 0 - DecimalValue(body)
                       ELSE DecimalValue(body)]
       ELSE [ok |-> FALSE, value |-> 0]

\* the context length with ValueError taken for zero
context_length_zero_on_error(ctx_input) ==
    IF ctx_input # <<>> THEN int(ctx_input).value ELSE DefaultContextLength

\* lines 156-161: the context length the answer ctx_input gives
context_length_of(ctx_input) ==
    IF ctx_input # <<>>
    THEN IF int(ctx_input).ok THEN int(ctx_input).value ELSE DefaultContextLength
    ELSE DefaultContextLength

-----------------------------------------------------------------------------
(* Helpers of _prompt_custom_flow *)

\* a required answer that passes whatever it is
required_answer_never_missing(answer) == FALSE

\* lines 144, 148, 152: "if not answer: return False"
required_answer_missing(answer) == answer = ""

\* only KeyboardInterrupt caught
caught_only_keyboard_interrupt(exc) == exc = "KeyboardInterrupt"

\* line 185: except (KeyboardInterrupt, EOFError)
caught_by_flow(exc) == exc \in {"KeyboardInterrupt", "EOFError"}

\* the variable never counted as present
env_var_never_present(env, name) == FALSE

\* line 164: os.environ.get(name) is truthy: the variable exists and its
\* value is not the empty string
env_var_truthy(env, name) == env[name] # <<>> /\ env[name][1] # ""

\* the value stored in the configuration store only
environ_not_updated(env, name, key_val) == env

\* line 168: os.environ[name] = key_val
environ_setitem(env, name, key_val) == [env EXCEPT ![name] = <<key_val>>]

\* line 167: set_config_value(name, key_val)
set_config_value(store, name, key_val) == [store EXCEPT ![name] = <<key_val>>]

\* line 176: f"${env_var_name}"
api_key_reference(name) == "$" \o name

\* line 182: f"custom-{model_id}"
config_key(id) == "custom-" \o id

\* lines 171-180: the entry saved
build_config(url, id, name, ctx) == MkConfig(url, id, api_key_reference(name), ctx)

-----------------------------------------------------------------------------
(* State machine *)

\* the observation record at the start of an invocation of run()
NewObs(stale) ==
    [stale |-> stale,           \* self.result was already "add_custom"
     enters |-> 0,              \* switches to the alternate screen
     exits |-> 0,               \* switches back to the main screen
     key |-> "none",            \* key handled by the display phase
     prompts |-> 0,             \* prompts issued (safe_input calls)
     answers |-> <<>>,          \* answers given to the required prompts
     interrupted |-> <<>>,      \* <<exc>>: safe_input raised exc at a prompt
     warned |-> 0,              \* emit_warning calls
     ctx_input |-> <<>>,        \* <<a>>: the context-length prompt was answered a
     key_val |-> <<>>,          \* <<a>>: the value prompt was answered a
     save |-> <<>>,             \* <<key, config, outcome, io>> of _save_config
     file0 |-> file,            \* file, environment and store at the start
     environ0 |-> environ,
     store0 |-> config_store,
     file_at_save |-> file]     \* file when _save_config was called

TypeOK ==
    /\ pc \in {"idle", "display", "app_exit", "prompt_url", "prompt_model",
               "prompt_env", "prompt_ctx", "prompt_key", "returned", "raised"}
    /\ result \in {"None", "add_custom"}
    /\ awaiting \in BOOLEAN
    /\ screen \in {"main", "alt"}
    /\ ret \in {"none", "True", "False"}
    /\ file.kind \in {"absent", "corrupt", "nonobject", "object"}

\* lines 28-46 (and the process around the instance): a constructed menu, run()
\* not yet called
Init ==
    /\ pc = "idle"
    /\ result = "None"
    /\ awaiting = FALSE
    /\ screen = "main"
    /\ environ \in [EnvVarNames -> InitialEnvValues]
    /\ config_store = [n \in EnvVarNames |-> <<>>]
    /\ file \in InitialFiles
    /\ base_url = ""
    /\ model_id = ""
    /\ env_var_name = ""
    /\ context_length = 0
    /\ ret = "none"
    /\ obs = NewObs(FALSE)

\* lines 93-122 of run(), self.result being res when it is entered: the flag
\* is set, then the alternate screen is entered; a write to stdout that raises
\* leaves run() before its try block
RunEntry(res) ==
    /\ pc \in {"idle", "returned", "raised"}
    /\ result' = res
    /\ awaiting' = TRUE
    /\ base_url' = ""
    /\ model_id' = ""
    /\ env_var_name' = ""
    /\ context_length' = 0
    /\ ret' = "none"
    /\ \E stdout_ok \in BOOLEAN :
          IF stdout_ok
          THEN /\ screen' = "alt"
               /\ pc' = "display"
               /\ obs' = [NewObs(res = "add_custom") EXCEPT !.enters = 1]
          ELSE /\ screen' = screen
               /\ pc' = "raised"
               /\ obs' = NewObs(res = "add_custom")
    /\ UNCHANGED <<environ, config_store, file>>

\* run() called on the instance that exists
run == RunEntry(result)

\* lines 208-210: a new AddModelMenu (self.result = None), then run()
interactive_model_picker == RunEntry("None")

\* lines 106-109: the enter key
enter_handler ==
    /\ pc = "display"
    /\ result' = "add_custom"
    /\ pc' = "app_exit"
    /\ obs' = [obs EXCEPT !.key = "enter"]
    /\ UNCHANGED <<awaiting, screen, environ, config_store, file, base_url,
                   model_id, env_var_name, context_length, ret>>

\* lines 111-113: the cancel key
ctrl_c_handler ==
    /\ pc = "display"
    /\ pc' = "app_exit"
    /\ obs' = [obs EXCEPT !.key = "c-c"]
    /\ UNCHANGED <<result, awaiting, screen, environ, config_store, file, base_url,
                   model_id, env_var_name, context_length, ret>>

\* lines 125-126: update_display() or app.run() raises
display_raises ==
    /\ pc = "display"
    /\ pc' = "app_exit"
    /\ obs' = [obs EXCEPT !.key = "exception"]
    /\ UNCHANGED <<result, awaiting, screen, environ, config_store, file, base_url,
                   model_id, env_var_name, context_length, ret>>

\* lines 127-135: the finally block, then the dispatch on self.result.  The
\* write that restores the screen can raise, and then the flag is not cleared.
run_finally ==
    /\ pc = "app_exit"
    /\ \E stdout_ok \in BOOLEAN :
          IF ~stdout_ok
          THEN /\ pc' = "raised"
               /\ UNCHANGED <<awaiting, screen, ret, obs>>
          ELSE /\ screen' = "main"
               /\ awaiting' = FALSE
               /\ IF obs.key = "exception"
                  THEN /\ pc' = "raised"
                       /\ ret' = ret
                       /\ obs' = [obs EXCEPT !.exits = @ + 1]
                  ELSE IF result = "add_custom"
                  THEN /\ pc' = "prompt_url"
                       /\ ret' = ret
                       /\ obs' = [obs EXCEPT !.exits = @ + 1, !.prompts = 1]
                  ELSE /\ pc' = "returned"
                       /\ ret' = "False"
                       /\ obs' = [obs EXCEPT !.exits = @ + 1]
    /\ UNCHANGED <<result, environ, config_store, file, base_url, model_id,
                   env_var_name, context_length>>

\* "return False" after an empty required answer
ReturnFalseOnEmpty(answer) ==
    /\ pc' = "returned"
    /\ ret' = "False"
    /\ obs' = [obs EXCEPT !.answers = Append(@, answer)]

\* lines 185-187: safe_input raised exc at the prompt being waited on
Interrupted(exc) ==
    /\ IF caught_by_flow(exc)
       THEN /\ pc' = "returned"
            /\ ret' = "False"
            /\ obs' = [obs EXCEPT !.interrupted = <<exc>>, !.warned = @ + 1]
       ELSE /\ pc' = "raised"
            /\ ret' = ret
            /\ obs' = [obs EXCEPT !.interrupted = <<exc>>]
    /\ UNCHANGED <<result, awaiting, screen, environ, config_store, file, base_url,
                   model_id, env_var_name, context_length>>

\* lines 170-183: build the entry, _save_config, return True; an exception of
\* _save_config is none of those the flow catches and leaves run()
SaveAndReturn(ctx, io, o) ==
    LET config == build_config(base_url, model_id, env_var_name, ctx)
        key == config_key(model_id)
        saved == save_config(file, key, config, io)
    IN /\ file' = saved.file
       /\ obs' = [o EXCEPT !.save = <<key, config, saved.outcome, io>>,
                           !.file_at_save = file]
       /\ IF saved.outcome = "ok"
          THEN pc' = "returned" /\ ret' = "True"
          ELSE pc' = "raised" /\ ret' = ret

\* lines 143-144: the base URL prompt
prompt_base_url ==
    /\ pc = "prompt_url"
    /\ \/ \E answer \in BaseUrlAnswers :
             /\ base_url' = answer
             /\ IF required_answer_missing(answer)
                THEN ReturnFalseOnEmpty(answer)
                ELSE /\ pc' = "prompt_model"
                     /\ ret' = ret
                     /\ obs' = [obs EXCEPT !.answers = Append(@, answer), !.prompts = 2]
             /\ UNCHANGED <<result, awaiting, screen, environ, config_store, file,
                            model_id, env_var_name, context_length>>
       \/ \E exc \in InputExceptions : Interrupted(exc)

\* lines 147-148: the model id prompt
prompt_model_id ==
    /\ pc = "prompt_model"
    /\ \/ \E answer \in ModelIdAnswers :
             /\ model_id' = answer
             /\ IF required_answer_missing(answer)
                THEN ReturnFalseOnEmpty(answer)
                ELSE /\ pc' = "prompt_env"
                     /\ ret' = ret
                     /\ obs' = [obs EXCEPT !.answers = Append(@, answer), !.prompts = 3]
             /\ UNCHANGED <<result, awaiting, screen, environ, config_store, file,
                            base_url, env_var_name, context_length>>
       \/ \E exc \in InputExceptions : Interrupted(exc)

\* lines 151-152: the environment-variable name prompt
prompt_env_var_name ==
    /\ pc = "prompt_env"
    /\ \/ \E answer \in EnvVarNameAnswers :
             /\ env_var_name' = answer
             /\ IF required_answer_missing(answer)
                THEN ReturnFalseOnEmpty(answer)
                ELSE /\ pc' = "prompt_ctx"
                     /\ ret' = ret
                     /\ obs' = [obs EXCEPT !.answers = Append(@, answer), !.prompts = 4]
             /\ UNCHANGED <<result, awaiting, screen, environ, config_store, file,
                            base_url, model_id, context_length>>
       \/ \E exc \in InputExceptions : Interrupted(exc)

\* lines 155-164, and 170-183 when the variable is present: the context-length
\* prompt, then either the value prompt or the save
prompt_context_length ==
    /\ pc = "prompt_ctx"
    /\ \/ \E ctx_input \in CtxAnswers :
             LET ctx == context_length_of(ctx_input)
                 o == [obs EXCEPT !.ctx_input = <<ctx_input>>]
             IN /\ context_length' = ctx
                /\ IF ~env_var_truthy(environ, env_var_name)
                   THEN /\ pc' = "prompt_key"
                        /\ obs' = [o EXCEPT !.prompts = 5]
                        /\ UNCHANGED <<file, ret>>
                   ELSE \E io \in IoOutcomes : SaveAndReturn(ctx, io, o)
                /\ UNCHANGED <<result, awaiting, screen, environ, config_store,
                               base_url, model_id, env_var_name>>
       \/ \E exc \in InputExceptions : Interrupted(exc)

\* lines 165-183: the value prompt, then the save
prompt_key_value ==
    /\ pc = "prompt_key"
    /\ \/ \E key_val \in KeyValueAnswers :
             /\ IF key_val # ""
                THEN /\ config_store' = set_config_value(config_store, env_var_name, key_val)
                     /\ environ' = environ_setitem(environ, env_var_name, key_val)
                ELSE UNCHANGED <<config_store, environ>>
             /\ \E io \in IoOutcomes :
                   SaveAndReturn(context_length, io, [obs EXCEPT !.key_val = <<key_val>>])
             /\ UNCHANGED <<result, awaiting, screen, base_url, model_id,
                            env_var_name, context_length>>
       \/ \E exc \in InputExceptions : Interrupted(exc)

Next ==
    \/ run
    \/ interactive_model_picker
    \/ enter_handler
    \/ ctrl_c_handler
    \/ display_raises
    \/ run_finally
    \/ prompt_base_url
    \/ prompt_model_id
    \/ prompt_env_var_name
    \/ prompt_context_length
    \/ prompt_key_value

Spec == Init /\ [][Next]_vars

-----------------------------------------------------------------------------
(* Properties *)

\* run() has ended, by returning or by raising
Ended == pc \in {"returned", "raised"}

\* _save_config was called in this invocation and completed its write
Saved == obs.save # <<>> /\ obs.save[3] = "ok"

\* the mapping a file of kind "object" holds
MappingOf(f) == dict_of_pairs(f.pairs)

\* a required prompt of this invocation was answered with the empty string
EmptyRequiredAnswer == \E i \in 1..Len(obs.answers) : obs.answers[i] = ""

\* the display phase of this invocation is over
LeftDisplayPhase == pc \notin {"idle", "display", "app_exit"}

\* C1: run() returns True only if _save_config completed its write in this
\* invocation, and returns False after every cancellation: the cancel key, an
\* empty required answer, an interrupt at a prompt.
C1_ReturnContract ==
    pc = "returned" =>
        /\ (ret = "True" => Saved)
        /\ (obs.key = "c-c" \/ EmptyRequiredAnswer \/ obs.interrupted # <<>>
               => ret = "False")

\* C2: on a file holding a JSON object with mapping M, a completed
\* _save_config(key, entry) leaves a file holding a mapping with the keys of M
\* and key, key mapped to entry, every other key to its value in M, the keys
\* of M in their order, key in its place if it was in M and last otherwise;
\* saving the same key and entry again leaves the same file.
C2_SaveMergesInPlace ==
    (Saved /\ obs.file_at_save.kind = "object") =>
        LET M == MappingOf(obs.file_at_save)
            key == obs.save[1]
            entry == obs.save[2]
            F == file.pairs
        IN /\ file.kind = "object"
           /\ Cardinality(Keys(F)) = Len(F)
           /\ Keys(F) = Keys(M) \cup {key}
           /\ Lookup(F, key) = entry
           /\ \A k \in Keys(M) \ {key} : Lookup(F, k) = Lookup(M, k)
           /\ KeySeq(F) = IF key \in Keys(M) THEN KeySeq(M) ELSE Append(KeySeq(M), key)
           /\ save_config(file, key, entry, "ok").file = file

\* a save over a file of two or more keys whose first key is the saved one
C2_Witness ==
    /\ Saved
    /\ obs.file_at_save.kind = "object"
    /\ Len(MappingOf(obs.file_at_save)) >= 2
    /\ MappingOf(obs.file_at_save)[1][1] = obs.save[1]
    /\ MappingOf(obs.file_at_save)[1][2] # obs.save[2]

\* C3: once a required prompt (URL, model id, variable name) was answered with
\* the empty string, the flow has returned False, that prompt is the last one
\* issued, _save_config was not called and the file is as it was.
C3_EmptyRequiredAnswerCancels ==
    EmptyRequiredAnswer =>
        /\ pc = "returned"
        /\ ret = "False"
        /\ obs.answers[Len(obs.answers)] = ""
        /\ obs.prompts = Len(obs.answers)
        /\ obs.prompts <= 3
        /\ obs.save = <<>>
        /\ file = obs.file0

\* the third required prompt answered empty after two non-empty answers
C3_Witness ==
    /\ Len(obs.answers) = 3
    /\ obs.answers[3] = ""
    /\ pc = "returned"

\* C4: once safe_input raised KeyboardInterrupt or EOFError at a prompt, the
\* flow has returned False after one warning, _save_config was not called and
\* the file is as it was.
C4_InterruptCancels ==
    obs.interrupted # <<>> =>
        /\ pc = "returned"
        /\ ret = "False"
        /\ obs.warned = 1
        /\ obs.save = <<>>
        /\ file = obs.file0

\* end-of-input at the fifth prompt, the value of the variable
C4_Witness ==
    /\ obs.interrupted = <<"EOFError">>
    /\ obs.prompts = 5
    /\ pc = "returned"

\* C5: after run() has left the display phase, on every path, the awaiting
\* flag is clear, the main screen is back, and a screen entered was restored
\* exactly once.
C5_ScopedScreenAndSignal ==
    LeftDisplayPhase =>
        /\ awaiting = FALSE
        /\ screen = "main"
        /\ obs.exits = obs.enters

\* C6: after the cancel key, in any invocation, no prompt is issued,
\* _save_config is not called and run() returns False.
C6_CancelKeySkipsFlow ==
    obs.key = "c-c" =>
        /\ obs.prompts = 0
        /\ obs.save = <<>>
        /\ (pc = "returned" => ret = "False")

\* the answer is a decimal numeral, with or without a minus sign
PlainInteger(a) ==
    LET digits == IF a # <<>> /\ a[1] = "-" THEN Tail(a) ELSE a
    IN digits # <<>> /\ \A i \in 1..Len(digits) : digits[i] \in Digits

RECURSIVE NumeralValue(_)
\* the number a string of digits denotes
NumeralValue(d) ==
    IF d = <<>> THEN 0 ELSE 10 * NumeralValue(SubSeq(d, 1, Len(d) - 1)) + DigitValue(d[Len(d)])

PlainIntegerValue(a) ==
    IF a[1] = "-" THEN 0 - NumeralValue(Tail(a)) ELSE NumeralValue(a)

\* the answer holds no digit, or a character that is none of digit, sign,
\* space, underscore: no reading makes it an integer
NoInteger(a) ==
    \/ \A i \in 1..Len(a) : a[i] \notin Digits
    \/ \E i \in 1..Len(a) : a[i] \notin Digits \cup {"+", "-", " ", "_"}

NamedVarPresent == env_var_name \in EnvVarNames /\ obs.environ0[env_var_name] # <<>>

\* what the flow does with a variable it takes as set: no fifth prompt, the
\* environment and the store untouched, the save called with key
\* custom-<model_id> and api_key "$<NAME>", and a completed save leaves that
\* entry in the file
TakenAsSet ==
    /\ obs.prompts = 4
    /\ environ = obs.environ0
    /\ config_store = obs.store0
    /\ (Ended /\ obs.interrupted = <<>>) =>
          /\ obs.save # <<>>
          /\ obs.save[1] = "custom-" \o model_id
          /\ obs.save[2].custom_endpoint.api_key = "$" \o env_var_name
    /\ Saved => Lookup(file.pairs, "custom-" \o model_id) = obs.save[2]

C9_CorruptFileOverwritten ==
    (obs.save # <<>> /\ obs.file_at_save.kind = "corrupt") =>
        /\ obs.save[3] \in {"ok", "OSError"}
        /\ obs.save[4] = "ok" => obs.save[3] = "ok"
        /\ Saved => file = FileOf("object", << <<obs.save[1], obs.save[2]>> >>)

\* a completed save over a corrupt file
C9_Witness ==
    /\ Saved
    /\ obs.file_at_save.kind = "corrupt"
    /\ Len(file.pairs) = 1

\* C10: with the named variable absent from the environment, the value prompt
\* is issued after the context-length answer; a non-empty value is in the
\* store and in the environment under that name, nothing else changed; a
\* blank value changes neither; either way _save_config is called with
\* api_key "$<NAME>", a completed save returns True, and nothing but the save
\* can fail.
C10_AbsentVarPrompted ==
    (env_var_name \in EnvVarNames /\ obs.environ0[env_var_name] = <<>>) =>
        /\ obs.ctx_input # <<>> => obs.prompts = 5
        /\ obs.key_val = <<>> => (environ = obs.environ0 /\ config_store = obs.store0)
        /\ obs.key_val # <<>> =>
              LET v == obs.key_val[1]
              IN /\ environ = IF v = "" THEN obs.environ0
                              ELSE [obs.environ0 EXCEPT ![env_var_name] = <<v>>]
                 /\ config_store = IF v = "" THEN obs.store0
                                   ELSE [obs.store0 EXCEPT ![env_var_name] = <<v>>]
                 /\ obs.save # <<>>
                 /\ obs.save[2].custom_endpoint.api_key = "$" \o env_var_name
                 /\ obs.save[4] = "ok" /\ obs.file_at_save.kind # "nonobject"
                       => (Saved /\ pc = "returned" /\ ret = "True")

\* a completed save after the value "sk-1" was given for an absent variable
C10_Witness ==
    /\ Saved
    /\ obs.key_val = <<"sk-1">>
    /\ obs.environ0[env_var_name] = <<>>
    /\ environ[env_var_name] = <<"sk-1">>

====
